---- MODULE Spec2Model ----
(***************************************************************************)
(* Model of the intersection simulation (intersection_sim/model.py and     *)
(* intersection_sim/agents.py): the grid geometry, the traffic lights, the *)
(* vehicles and the controller's tick (TrafficModel.step).                 *)
(*                                                                         *)
(* Coordinates are pairs <<x, y>>; Python's pos[0] is pos[1] here and      *)
(* Python's pos[1] is pos[2].  Python's None is the empty tuple <<>> and a *)
(* value b held in an optional field is <<b>> (phase_transition is None or *)
(* <<"clearing">>, pending_phase is None or <<TRUE>> or <<FALSE>>).        *)
(***************************************************************************)
EXTENDS Integers, Sequences, FiniteSets, TLC

(***************************************************************************)
(* Bounds of the model.                                                    *)
(***************************************************************************)
Width == 6
Height == 6
MaxTicks == 11
MaxOrderVehicles == 2
MaxId == 3
MaxArrivals == 1
Interval == 3
MaxCenterStart == 13
MaxQueue == 12
car_speed == 3
MaxSpawnId == 4
MaxSpawnTicks == 2
MaxLanes == 2
LaneCounts == -1..MaxLanes
MaxBuiltSize == 8
MaxBuiltTicks == 2
\* ticks of the runs in which every started Clearing is followed to its end,
\* and the number of ticks within which the conflict zone drains
MaxLiveTicks == 14
MaxHoldTicks == 21
\* ticks of the runs with a vehicle on every approach
MaxCrossTicks == 4
ClearingTicks == 3
\* ticks of the runs with every decision_interval up to Interval
MaxPendingTicks == 12

(***************************************************************************)
(* Program constants.                                                      *)
(***************************************************************************)
NumLanes == 1
min_green_time == 7
max_green_time == 60
clearance_time == 3
sensor_range == 10
sensing_range == 5
flow_interval == 10

None == <<>>
Some(b) == <<b>>

Strategies == {"auction", "fixed_cycle", "dutch_system"}
DecisionIntervals == {Interval}

VARIABLES
    light_strategy,      \* constructor argument, fixed for the run
    decision_interval,   \* constructor argument, fixed for the run
    current_id,          \* mesa Model.current_id, advanced by next_id()
    current_agents, total_entered, total_exited, last_exited_count,
    steps,               \* schedule.steps
    current_cycle_time, dutch_cycle_time,
    horizontal_phase, phase_transition, pending_phase,
    lights,              \* light position -> "Red" | "Green"
    veh,                 \* unique_id -> vehicle record (grid and schedule)
    raised,              \* an exception has propagated out of step()
    dec,                 \* controller state right after the strategy part of the last tick
    committed,           \* the last tick took the commit branch (model.py 183-187)
    probe,               \* None, or the queues and green time sensed on long lanes
    arrivals,            \* num_vehicles drawn by the last step() (line 157)
    flow,                \* the value get_flow_this_interval returned last
    flow_sum,            \* the sum of the values get_flow_this_interval has returned
    orientation,         \* light position -> the light's field is_horizontal
    built,               \* None, or the network a constructor call has built
    flips,               \* how often horizontal_phase has changed value
    in_force,            \* ticks since the phase in force was committed (dutch_system)
    evaluated            \* the strategy has been evaluated during the Clearing the latest tick began in

vars == <<light_strategy, decision_interval, current_id, current_agents,
          total_entered, total_exited, last_exited_count, steps,
          current_cycle_time, dutch_cycle_time, horizontal_phase,
          phase_transition, pending_phase, lights, veh, raised, dec,
          committed, probe, arrivals, flow, flow_sum, orientation, built,
          flips, in_force, evaluated>>

(***************************************************************************)
(* Geometry (TrafficModel.__init__).                                       *)
(***************************************************************************)
intersection_size == 2 * NumLanes
center_start == (Width - intersection_size) \div 2
center_end == center_start + intersection_size
center_range == center_start .. (center_end - 1)
incoming_lanes == [i \in 1..NumLanes |-> center_start + i - 1]
outgoing_lanes == [i \in 1..NumLanes |-> center_end - NumLanes + i - 1]

Range(s) == {s[i] : i \in DOMAIN s}
road_lanes == Range(incoming_lanes) \cup Range(outgoing_lanes)

InGrid(x, y) == 0 <= x /\ x < Width /\ 0 <= y /\ y < Height

\* the cells that received a RoadCell from the five create_road_segment calls
IsRoad(x, y) ==
    \/ x \in road_lanes /\ y \in 0..(center_start - 1)
    \/ x \in road_lanes /\ y \in center_end..(Height - 1)
    \/ x \in 0..(center_start - 1) /\ y \in road_lanes
    \/ x \in center_end..(Width - 1) /\ y \in road_lanes
    \/ x \in center_range /\ y \in center_range

spawn_positions ==
    {<<0, y>> : y \in Range(incoming_lanes)}
    \cup {<<Width - 1, y>> : y \in Range(outgoing_lanes)}
    \cup {<<x, 0>> : x \in Range(outgoing_lanes)}
    \cup {<<x, Height - 1>> : x \in Range(incoming_lanes)}

traffic_light_positions ==
    {<<x + NumLanes, center_start - 1>> : x \in Range(incoming_lanes)}
    \cup {<<x - NumLanes, center_end>> : x \in Range(outgoing_lanes)}
    \cup {<<center_start - 1, y>> : y \in Range(incoming_lanes)}
    \cup {<<center_end, y>> : y \in Range(outgoing_lanes)}

(***************************************************************************)
(* TrafficLightAgent.                                                      *)
(***************************************************************************)
\* _determine_orientation without the test for the east approach
is_horizontal_west_only(p) ==
    p[1] = center_start - 1 /\ p[2] \in Range(incoming_lanes)

is_horizontal(p) ==
    \/ p[1] = center_start - 1 /\ p[2] \in Range(incoming_lanes)
    \/ p[1] = center_end /\ p[2] \in Range(outgoing_lanes)

get_lane_cells(p) ==
    IF is_horizontal(p)
    THEN IF p[1] = center_start - 1
         THEN [i \in 1..center_start |-> <<i - 1, p[2]>>]
         ELSE [i \in 1..(Width - center_end) |-> <<center_end + i - 1, p[2]>>]
    ELSE IF p[2] = center_start - 1
         THEN [i \in 1..center_start |-> <<p[1], i - 1>>]
         ELSE [i \in 1..(Height - center_end) |-> <<p[1], center_end + i - 1>>]

\* LightStep without the Clearing branch
LightStepNoClearing(p, transition, hphase) ==
    IF orientation[p] = hphase THEN "Green" ELSE "Red"

\* TrafficLightAgent.step: the colour from the controller state
LightStep(p, transition, hphase) ==
    IF transition # None THEN "Red"
    ELSE IF orientation[p] = hphase THEN "Green" ELSE "Red"

(***************************************************************************)
(* VehicleAgent.                                                           *)
(***************************************************************************)
\* _determine_direction with the two horizontal directions exchanged
_determine_direction_mirrored(start_pos) ==
    IF start_pos[1] = 0 /\ start_pos[2] \in Range(incoming_lanes) THEN <<-1, 0>>
    ELSE IF start_pos[1] = Width - 1 /\ start_pos[2] \in Range(outgoing_lanes) THEN <<1, 0>>
    ELSE IF start_pos[2] = 0 /\ start_pos[1] \in Range(outgoing_lanes) THEN <<0, 1>>
    ELSE IF start_pos[2] = Height - 1 /\ start_pos[1] \in Range(incoming_lanes) THEN <<0, -1>>
    ELSE <<0, 0>>

_determine_direction(start_pos) ==
    IF start_pos[1] = 0 /\ start_pos[2] \in Range(incoming_lanes) THEN <<1, 0>>
    ELSE IF start_pos[1] = Width - 1 /\ start_pos[2] \in Range(outgoing_lanes) THEN <<-1, 0>>
    ELSE IF start_pos[2] = 0 /\ start_pos[1] \in Range(outgoing_lanes) THEN <<0, 1>>
    ELSE IF start_pos[2] = Height - 1 /\ start_pos[1] \in Range(incoming_lanes) THEN <<0, -1>>
    ELSE <<0, 0>>

VehicleAgent(start_pos) ==
    [pos |-> start_pos,
     direction |-> _determine_direction(start_pos),
     speed |-> 1,
     steps_taken |-> 0,
     is_stopped_for_queue |-> FALSE,
     is_stopped_at_light |-> FALSE,
     has_passed_light |-> FALSE,
     waiting_time |-> 0]

VehiclesAt(vs, cell) == {i \in DOMAIN vs : vs[i].pos = cell}

\* lane_idx = lanes.index(c) if c in lanes else 0
LaneIdx(lanes, c) ==
    IF \E i \in DOMAIN lanes : lanes[i] = c
    THEN CHOOSE i \in DOMAIN lanes : lanes[i] = c /\ \A j \in DOMAIN lanes : lanes[j] = c => i <= j
    ELSE 1

\* the light position computed in is_at_traffic_light and again in
\* _handle_intersection_approach (the two computations are the same text)
light_pos_of(v) ==
    IF v.direction = <<1, 0>>
    THEN <<center_start - 1, incoming_lanes[LaneIdx(incoming_lanes, v.pos[2])]>>
    ELSE IF v.direction = <<-1, 0>>
    THEN <<center_end, outgoing_lanes[LaneIdx(outgoing_lanes, v.pos[2])]>>
    ELSE IF v.direction = <<0, 1>>
    THEN <<outgoing_lanes[LaneIdx(outgoing_lanes, v.pos[1])], center_start - 1>>
    ELSE IF v.direction = <<0, -1>>
    THEN <<incoming_lanes[LaneIdx(incoming_lanes, v.pos[1])], center_end>>
    ELSE None

is_at_traffic_light(v) == v.pos = light_pos_of(v)

\* the state of the light on the vehicle's cell, None when there is none
check_traffic_light_state(v, L) ==
    IF ~is_at_traffic_light(v) THEN None
    ELSE IF v.pos \in DOMAIN L THEN Some(L[v.pos]) ELSE None

is_in_intersection(v) == v.pos[1] \in center_range /\ v.pos[2] \in center_range

is_approaching_intersection(v) ==
    LET next_x == v.pos[1] + v.direction[1]
        next_y == v.pos[2] + v.direction[2]
    IN \/ next_x \in center_range /\ v.pos[2] \in center_range
       \/ v.pos[1] \in center_range /\ next_y \in center_range

\* detect_queue of vehicle v against the vehicles vs now on the grid
detect_queue(v, vs) ==
    IF v.speed = 0 THEN FALSE
    ELSE \E i \in 1..sensing_range :
            LET check_x == v.pos[1] + v.direction[1] * i
                check_y == v.pos[2] + v.direction[2] * i
            IN /\ InGrid(check_x, check_y)
               /\ \E a \in VehiclesAt(vs, <<check_x, check_y>>) : vs[a].speed < v.speed

\* _handle_intersection_approach: the vehicle after the re-check of its light
ApproachAt(v, L, light_pos) ==
    IF light_pos # None /\ light_pos \in DOMAIN L /\ L[light_pos] = "Red"
    THEN [v EXCEPT !.speed = 0, !.is_stopped_for_queue = FALSE]
    ELSE v

_handle_intersection_approach(v, L) == ApproachAt(v, L, light_pos_of(v))

\* MoveTo that removes an exiting vehicle without counting the exit
MoveToExitUncounted(id, w, new_x, new_y) ==
    IF ~InGrid(new_x, new_y)
    THEN [veh |-> [i \in DOMAIN w.veh \ {id} |-> w.veh[i]],
          current_agents |-> w.current_agents - 1,
          total_exited |-> w.total_exited]
    ELSE IF IsRoad(new_x, new_y) /\ VehiclesAt(w.veh, <<new_x, new_y>>) = {}
         THEN [w EXCEPT !.veh[id].pos = <<new_x, new_y>>,
                        !.veh[id].steps_taken = @ + 1]
         ELSE w

\* MoveTo that counts an exit without taking the vehicle out of current_agents
MoveToExitStillCurrent(id, w, new_x, new_y) ==
    IF ~InGrid(new_x, new_y)
    THEN [veh |-> [i \in DOMAIN w.veh \ {id} |-> w.veh[i]],
          current_agents |-> w.current_agents,
          total_exited |-> w.total_exited + 1]
    ELSE IF IsRoad(new_x, new_y) /\ VehiclesAt(w.veh, <<new_x, new_y>>) = {}
         THEN [w EXCEPT !.veh[id].pos = <<new_x, new_y>>,
                        !.veh[id].steps_taken = @ + 1]
         ELSE w

\* MoveTo without the check for a vehicle on the target cell
MoveToIgnoringVehicles(id, w, new_x, new_y) ==
    IF ~InGrid(new_x, new_y)
    THEN [veh |-> [i \in DOMAIN w.veh \ {id} |-> w.veh[i]],
          current_agents |-> w.current_agents - 1,
          total_exited |-> w.total_exited + 1]
    ELSE IF IsRoad(new_x, new_y)
         THEN [w EXCEPT !.veh[id].pos = <<new_x, new_y>>,
                        !.veh[id].steps_taken = @ + 1]
         ELSE w

\* _move_forward of vehicle id in world w = [veh, current_agents, total_exited]
MoveTo(id, w, new_x, new_y) ==
    IF ~InGrid(new_x, new_y)
    THEN [veh |-> [i \in DOMAIN w.veh \ {id} |-> w.veh[i]],
          current_agents |-> w.current_agents - 1,
          total_exited |-> w.total_exited + 1]
    ELSE IF IsRoad(new_x, new_y) /\ VehiclesAt(w.veh, <<new_x, new_y>>) = {}
         THEN [w EXCEPT !.veh[id].pos = <<new_x, new_y>>,
                        !.veh[id].steps_taken = @ + 1]
         ELSE w

_move_forward(id, w) ==
    MoveTo(id, w, w.veh[id].pos[1] + w.veh[id].direction[1],
                  w.veh[id].pos[2] + w.veh[id].direction[2])

\* VehicleAgent.step, lines 252-254: the passed-light flag is dropped outside the zone
StepResetPassed(v) ==
    IF ~is_in_intersection(v) THEN [v EXCEPT !.has_passed_light = FALSE] ELSE v

\* LightCheck whose Green branch leaves is_stopped_at_light set
LightCheckStaysStopped(v, light_state) ==
    IF light_state = Some("Red")
    THEN [v |-> [v EXCEPT !.speed = 0,
                          !.is_stopped_at_light = TRUE,
                          !.is_stopped_for_queue = FALSE,
                          !.waiting_time = @ + 1],
          ret |-> TRUE]
    ELSE IF light_state = Some("Green") /\ v.is_stopped_at_light
    THEN [v |-> [v EXCEPT !.speed = 1,
                          !.has_passed_light = TRUE],
          ret |-> FALSE]
    ELSE [v |-> v, ret |-> FALSE]

\* LightCheck without the Red branch
LightCheckIgnoresRed(v, light_state) ==
    IF light_state = Some("Green") /\ v.is_stopped_at_light
    THEN [v |-> [v EXCEPT !.speed = 1,
                          !.is_stopped_at_light = FALSE,
                          !.has_passed_light = TRUE],
          ret |-> FALSE]
    ELSE [v |-> v, ret |-> FALSE]

\* LightCheck that stops at Red without counting the tick as waited
LightCheckNoWait(v, light_state) ==
    IF light_state = Some("Red")
    THEN [v |-> [v EXCEPT !.speed = 0,
                          !.is_stopped_at_light = TRUE,
                          !.is_stopped_for_queue = FALSE],
          ret |-> TRUE]
    ELSE IF light_state = Some("Green") /\ v.is_stopped_at_light
    THEN [v |-> [v EXCEPT !.speed = 1,
                          !.is_stopped_at_light = FALSE,
                          !.has_passed_light = TRUE],
          ret |-> FALSE]
    ELSE [v |-> v, ret |-> FALSE]

\* lines 256-268: the light check; ret says that step returned
LightCheck(v, light_state) ==
    IF light_state = Some("Red")
    THEN [v |-> [v EXCEPT !.speed = 0,
                          !.is_stopped_at_light = TRUE,
                          !.is_stopped_for_queue = FALSE,
                          !.waiting_time = @ + 1],
          ret |-> TRUE]
    ELSE IF light_state = Some("Green") /\ v.is_stopped_at_light
    THEN [v |-> [v EXCEPT !.speed = 1,
                          !.is_stopped_at_light = FALSE,
                          !.has_passed_light = TRUE],
          ret |-> FALSE]
    ELSE [v |-> v, ret |-> FALSE]

StepLightCheck(v, L) ==
    IF ~v.has_passed_light /\ is_at_traffic_light(v)
    THEN LightCheck(v, check_traffic_light_state(v, L))
    ELSE [v |-> v, ret |-> FALSE]

\* StepWaiting without the reset for a moving vehicle
StepWaitingNoReset(v) ==
    IF v.speed = 0 THEN [v EXCEPT !.waiting_time = @ + 1] ELSE v

\* lines 270-274: the waiting-time statistics
StepWaiting(v) ==
    IF v.speed = 0 THEN [v EXCEPT !.waiting_time = @ + 1]
    ELSE [v EXCEPT !.waiting_time = 0]

\* lines 276-278: the approach re-check
StepApproach(v, L) ==
    IF is_approaching_intersection(v) /\ ~is_at_traffic_light(v)
    THEN _handle_intersection_approach(v, L)
    ELSE v

\* lines 280-290: queue detection against the vehicles vs now on the grid
StepQueue(v, vs) ==
    IF ~v.is_stopped_at_light
    THEN IF detect_queue(v, vs)
         THEN [v EXCEPT !.speed = 0, !.is_stopped_for_queue = TRUE]
         ELSE IF v.is_stopped_for_queue /\ ~detect_queue(v, vs)
              THEN [v EXCEPT !.speed = 1, !.is_stopped_for_queue = FALSE]
              ELSE [v EXCEPT !.speed = 1]
    ELSE v

\* lines 292-294: the move, the vehicle's decisions being v
StepMove(id, w, v) ==
    IF v.speed > 0 THEN _move_forward(id, [w EXCEPT !.veh[id] = v])
    ELSE [w EXCEPT !.veh[id] = v]

StepAfterLight(id, w, L, c) ==
    IF c.ret THEN [w EXCEPT !.veh[id] = c.v]
    ELSE StepMove(id, w, StepQueue(StepApproach(StepWaiting(c.v), L), w.veh))

\* VehicleAgent.step of vehicle id in world w, the lights showing L
VehicleStep(id, w, L) ==
    StepAfterLight(id, w, L, StepLightCheck(StepResetPassed(w.veh[id]), L))

\* the vehicles of the schedule stepped one after the other in the order ord,
\* each against the grid as the ones before it left it
RECURSIVE RunVehicles(_, _, _)
RunVehicles(ord, w, L) ==
    IF ord = <<>> THEN w
    ELSE RunVehicles(Tail(ord), VehicleStep(Head(ord), w, L), L)

\* every order of the vehicles ids
Orders(ids) ==
    {o \in [1..Cardinality(ids) -> ids] : \A i, j \in DOMAIN o : i # j => o[i] # o[j]}

\* the order of mesa's schedule: the order in which the agents were added,
\* which for vehicles is the order of their ids
RECURSIVE ScheduleOrder(_)
ScheduleOrder(ids) ==
    IF ids = {} THEN <<>>
    ELSE <<CHOOSE i \in ids : \A j \in ids : i <= j>>
         \o ScheduleOrder(ids \ {CHOOSE i \in ids : \A j \in ids : i <= j})

(***************************************************************************)
(* TrafficModel: the controller.  ctl is the record of the controller's    *)
(* fields [horizontal_phase, phase_transition, pending_phase,              *)
(* current_cycle_time, dutch_cycle_time].                                  *)
(***************************************************************************)
\* the lights of the two orientation groups
HorizontalLights == {p \in traffic_light_positions : is_horizontal(p)}
VerticalLights == {p \in traffic_light_positions : ~is_horizontal(p)}

\* light position -> the set of the cells get_lane_cells returns for it
LaneCellSet == [p \in traffic_light_positions |-> Range(get_lane_cells(p))]

VehiclesIn(cells, vs) == {i \in DOMAIN vs : vs[i].pos \in cells}

LaneVehicles(p, vs) == VehiclesIn(LaneCellSet[p], vs)

RECURSIVE TotalWait(_, _)
TotalWait(ids, vs) ==
    IF ids = {} THEN 0
    ELSE LET i == CHOOSE i \in ids : TRUE
         IN vs[i].waiting_time + TotalWait(ids \ {i}, vs)

\* bid = queue_length * avg_wait with avg_wait = total_wait / queue_length, which
\* is total_wait (the float product is exact for queue lengths below 7)
BidOf(queue_length, total_wait) == IF queue_length > 0 THEN total_wait ELSE 0

LaneBid(ids, vs) == BidOf(Cardinality(ids), TotalWait(ids, vs))

Bid(p, vs) == LaneBid(LaneVehicles(p, vs), vs)

RECURSIVE TotalBid(_, _)
TotalBid(ps, vs) ==
    IF ps = {} THEN 0
    ELSE LET p == CHOOSE p \in ps : TRUE
         IN Bid(p, vs) + TotalBid(ps \ {p}, vs)

total_horizontal(vs) == TotalBid(HorizontalLights, vs)
total_vertical(vs) == TotalBid(VerticalLights, vs)

\* lines 218-226: the decision from the two totals
AuctionDecision(ctl, new_phase) ==
    IF new_phase # ctl.horizontal_phase
    THEN [ctl EXCEPT !.phase_transition = Some("clearing"),
                     !.pending_phase = Some(new_phase)]
    ELSE ctl

\* conduct_auction with ties going to the vertical group
conduct_auction_strict(ctl, vs) ==
    AuctionDecision(ctl, total_horizontal(vs) > total_vertical(vs))

\* conduct_auction dropping the transition when the phase in force wins
conduct_auction_cancels(ctl, vs) ==
    IF (total_horizontal(vs) >= total_vertical(vs)) # ctl.horizontal_phase
    THEN [ctl EXCEPT !.phase_transition = Some("clearing"),
                     !.pending_phase = Some(~ctl.horizontal_phase)]
    ELSE [ctl EXCEPT !.phase_transition = None, !.pending_phase = None]

conduct_auction(ctl, vs) ==
    AuctionDecision(ctl, total_horizontal(vs) >= total_vertical(vs))

Abs(n) == IF n < 0 THEN -n ELSE n
Min(a, b) == IF a < b THEN a ELSE b
Max(a, b) == IF a > b THEN a ELSE b

\* CellDistance measured along the other axis
CellDistanceAcross(horizontal, light_pos, cell) ==
    IF horizontal THEN Abs(cell[2] - light_pos[2]) ELSE Abs(cell[1] - light_pos[1])

\* lines 246-249: the distance of a lane cell from its light
CellDistance(horizontal, light_pos, cell) ==
    IF horizontal THEN Abs(cell[1] - light_pos[1]) ELSE Abs(cell[2] - light_pos[2])

\* line 251: the lane cells within sensor_range of the light
SensedOf(horizontal, light_pos, cells) ==
    {cell \in cells : CellDistance(horizontal, light_pos, cell) <= sensor_range}

\* light position -> its lane cells within sensor_range
SensedCells ==
    [p \in traffic_light_positions |->
        SensedOf(is_horizontal(p), p, LaneCellSet[p])]

\* the vehicles a light counts
SensedVehicles(p, vs) == VehiclesIn(SensedCells[p], vs)

RECURSIVE QueueSum(_, _)
QueueSum(ps, vs) ==
    IF ps = {} THEN 0
    ELSE LET p == CHOOSE p \in ps : TRUE
         IN Cardinality(SensedVehicles(p, vs)) + QueueSum(ps \ {p}, vs)

horizontal_queue(vs) == QueueSum(HorizontalLights, vs)
vertical_queue(vs) == QueueSum(VerticalLights, vs)

\* lines 260-267; int() truncates, and min + (max - min) * h / t is an integer
\* only for h = 0 and h = t, where the float quotient is exact
GreenTimeOf(h_queue, total_queue) ==
    IF total_queue > 0
    THEN Max(min_green_time,
             Min(max_green_time,
                 min_green_time
                 + ((max_green_time - min_green_time) * h_queue) \div total_queue))
    ELSE min_green_time

GreenTimeSum(h_queue, v_queue) == GreenTimeOf(h_queue, h_queue + v_queue)

green_time(vs) == GreenTimeSum(horizontal_queue(vs), vertical_queue(vs))

\* conduct_dutch_system with the clearance time left out of the threshold
conduct_dutch_system_no_clearance(ctl, vs) ==
    IF ctl.phase_transition = Some("clearing") THEN ctl
    ELSE IF ctl.dutch_cycle_time >= green_time(vs)
         THEN [ctl EXCEPT !.phase_transition = Some("clearing"),
                          !.pending_phase = Some(~ctl.horizontal_phase),
                          !.dutch_cycle_time = 0]
         ELSE ctl

conduct_dutch_system(ctl, vs) ==
    IF ctl.phase_transition = Some("clearing") THEN ctl
    ELSE IF ctl.dutch_cycle_time >= green_time(vs) + clearance_time
         THEN [ctl EXCEPT !.phase_transition = Some("clearing"),
                          !.pending_phase = Some(~ctl.horizontal_phase),
                          !.dutch_cycle_time = 0]
         ELSE ctl

is_intersection_clear(vs) ==
    \A x \in center_range : \A y \in center_range : VehiclesAt(vs, <<x, y>>) = {}

\* Strategy with the interval test off by one (> for >=)
StrategyLate(c1, vs) ==
    IF light_strategy = "auction"
    THEN IF c1.current_cycle_time > decision_interval
         THEN [conduct_auction(c1, vs) EXCEPT !.current_cycle_time = 0]
         ELSE c1
    ELSE IF light_strategy = "fixed_cycle"
    THEN IF c1.current_cycle_time > decision_interval
         THEN [c1 EXCEPT !.horizontal_phase = ~@, !.current_cycle_time = 0]
         ELSE c1
    ELSE IF light_strategy = "dutch_system"
    THEN conduct_dutch_system(c1, vs)
    ELSE c1

\* step, lines 161-177: the timers and the strategy
Strategy(c1, vs) ==
    IF light_strategy = "auction"
    THEN IF c1.current_cycle_time >= decision_interval
         THEN [conduct_auction(c1, vs) EXCEPT !.current_cycle_time = 0]
         ELSE c1
    ELSE IF light_strategy = "fixed_cycle"
    THEN IF c1.current_cycle_time >= decision_interval
         THEN [c1 EXCEPT !.horizontal_phase = ~@, !.current_cycle_time = 0]
         ELSE c1
    ELSE IF light_strategy = "dutch_system"
    THEN conduct_dutch_system(c1, vs)
    ELSE c1

\* step, lines 164-177: the strategy is evaluated in the tick that begins
Evaluates ==
    \/ light_strategy = "dutch_system"
    \/ /\ light_strategy \in {"auction", "fixed_cycle"}
       /\ current_cycle_time + 1 >= decision_interval

Decide(ctl, vs) ==
    Strategy([ctl EXCEPT !.current_cycle_time = @ + 1, !.dutch_cycle_time = @ + 1], vs)

\* Commit without the is_intersection_clear test
CommitUnchecked(ctl, vs) ==
    IF ctl.phase_transition = Some("clearing")
    THEN [ctl EXCEPT !.horizontal_phase = ctl.pending_phase[1],
                     !.phase_transition = None,
                     !.pending_phase = None]
    ELSE ctl

\* spawn_vehicle's test of line 296 taken as always true
FreeSpawnUnchecked == spawn_positions

\* spawn_vehicle, lines 292-297: the spawn cells that hold no vehicle
FreeSpawn == {p \in spawn_positions : VehiclesAt(veh, p) = {}}

\* Commit that leaves the controller in Clearing
CommitNever(ctl, vs) == ctl

\* step, lines 182-187: the commit of the pending phase
Commit(ctl, vs) ==
    IF ctl.phase_transition = Some("clearing") /\ is_intersection_clear(vs)
    THEN [ctl EXCEPT !.horizontal_phase = ctl.pending_phase[1],
                     !.phase_transition = None,
                     !.pending_phase = None]
    ELSE ctl

Ctl == [horizontal_phase |-> horizontal_phase,
        phase_transition |-> phase_transition,
        pending_phase |-> pending_phase,
        current_cycle_time |-> current_cycle_time,
        dutch_cycle_time |-> dutch_cycle_time]

\* get_flow_this_interval as called by datacollector.collect at the head of step
\* get_flow_this_interval without the test of schedule.steps
get_flow_every_tick == total_exited - last_exited_count

get_flow_this_interval ==
    IF steps % flow_interval = 0 THEN total_exited - last_exited_count ELSE 0

Collect ==
    /\ last_exited_count' = IF steps % flow_interval = 0 THEN total_exited
                            ELSE last_exited_count
    /\ flow' = get_flow_this_interval
    /\ flow_sum' = flow_sum + get_flow_this_interval

(***************************************************************************)
(* The actions.                                                            *)
(***************************************************************************)
InitWith(strategies, intervals) ==
    /\ light_strategy \in strategies
    /\ decision_interval \in intervals
    /\ current_id = 0
    /\ current_agents = 0
    /\ total_entered = 0
    /\ total_exited = 0
    /\ last_exited_count = 0
    /\ steps = 0
    /\ current_cycle_time = 0
    /\ dutch_cycle_time = 0
    /\ horizontal_phase = TRUE
    /\ phase_transition = None
    /\ pending_phase = None
    /\ lights = [p \in traffic_light_positions |-> "Red"]
    /\ veh = [i \in {} |-> i]
    /\ raised = FALSE
    /\ dec = [horizontal_phase |-> TRUE, phase_transition |-> None,
               pending_phase |-> None, green_time |-> -1]
    /\ committed = FALSE
    /\ probe = None
    /\ arrivals = 0
    /\ flow = 0
    /\ flow_sum = 0
    /\ orientation = [p \in traffic_light_positions |-> is_horizontal(p)]
    /\ built = None
    /\ flips = 0
    /\ in_force = 0
    /\ evaluated = FALSE

Init == InitWith(Strategies, DecisionIntervals)

\* A vehicle built with the arguments VehicleAgent.__init__ declares and put on
\* a spawn cell that holds no vehicle, with the bookkeeping of spawn_vehicle
\* (lines 298, 300-304).
Place(start_pos, max_id) ==
    /\ ~raised
    /\ current_id < max_id
    /\ start_pos \in FreeSpawn
    /\ current_id' = current_id + 1
    /\ veh' = [i \in DOMAIN veh \cup {current_id + 1} |->
                 IF i \in DOMAIN veh THEN veh[i] ELSE VehicleAgent(start_pos)]
    /\ current_agents' = current_agents + 1
    /\ total_entered' = total_entered + 1
    /\ UNCHANGED <<light_strategy, decision_interval, total_exited,
                   last_exited_count, steps, current_cycle_time, dutch_cycle_time,
                   horizontal_phase, phase_transition, pending_phase, lights,
                   raised, dec, committed, probe, arrivals, flow, flow_sum,
                   orientation, built, flips,
                   in_force, evaluated>>

PlaceVehicle(start_pos) == Place(start_pos, MaxId)

\* step() with num_vehicles > 0 arrivals while a spawn cell is free:
\* spawn_vehicle takes an id (line 298) and calls VehicleAgent(..., speed=...)
\* (line 299); __init__ (agents.py 99) has no parameter speed, the call raises
\* TypeError and the exception leaves step().
Raises(num_vehicles, max_id) ==
    /\ ~raised
    /\ steps < MaxTicks
    /\ current_id < max_id
    /\ num_vehicles > 0
    /\ FreeSpawn # {}
    /\ Collect
    /\ arrivals' = num_vehicles
    /\ current_id' = current_id + 1
    /\ raised' = TRUE
    /\ UNCHANGED <<light_strategy, decision_interval, current_agents,
                   total_entered, total_exited, steps, current_cycle_time,
                   dutch_cycle_time, horizontal_phase, phase_transition,
                   pending_phase, lights, veh, dec, committed, probe,
                   orientation, built, flips,
                   in_force, evaluated>>

StepRaises(num_vehicles) == Raises(num_vehicles, MaxId)

\* LightsOf with the horizontal lights stepped before the strategy part
LightsOfLagging(d) ==
    [p \in traffic_light_positions |->
        IF orientation[p]
        THEN LightStep(p, phase_transition, horizontal_phase)
        ELSE LightStep(p, d.phase_transition, d.horizontal_phase)]

LightsOf(d) ==
    [p \in traffic_light_positions |-> LightStep(p, d.phase_transition, d.horizontal_phase)]

\* the state a tick leaves: d the controller after the strategy part, L the
\* lights after their step, w the world after the vehicles' steps, c the
\* controller after the commit check
TickResult(d, L, w, c, gt) ==
    /\ dec' = [horizontal_phase |-> d.horizontal_phase,
               phase_transition |-> d.phase_transition,
               pending_phase |-> d.pending_phase,
               green_time |-> gt]
    /\ lights' = L
    /\ veh' = w.veh
    /\ current_agents' = w.current_agents
    /\ total_exited' = w.total_exited
    /\ steps' = steps + 1
    /\ horizontal_phase' = c.horizontal_phase
    /\ phase_transition' = c.phase_transition
    /\ pending_phase' = c.pending_phase
    /\ current_cycle_time' = c.current_cycle_time
    /\ dutch_cycle_time' = c.dutch_cycle_time
    /\ committed' = (c # d)
    /\ flips' = flips + (IF d.horizontal_phase # horizontal_phase THEN 1 ELSE 0)
                       + (IF c.horizontal_phase # d.horizontal_phase THEN 1 ELSE 0)
    /\ in_force' = IF light_strategy = "dutch_system" /\ d.phase_transition = None
                   THEN in_force + 1 ELSE 0
    /\ evaluated' = (/\ phase_transition = Some("clearing")
                     /\ (evaluated \/ Evaluates))

TickVehicles(d, L, w) ==
    TickResult(d, L, w, Commit(d, w.veh),
               IF light_strategy = "dutch_system" /\ phase_transition = None
               THEN green_time(veh) ELSE -1)

\* TickLights with the vehicles reading the colours the previous tick left
TickLightsAfterVehicles(d, L, ord) ==
    TickVehicles(d, L, RunVehicles(ord, [veh |-> veh, current_agents |-> current_agents,
                                         total_exited |-> total_exited], lights))

TickLights(d, L, ord) ==
    TickVehicles(d, L, RunVehicles(ord, [veh |-> veh, current_agents |-> current_agents,
                                         total_exited |-> total_exited], L))

TickFrom(d, ord) == TickLights(d, LightsOf(d), ord)

\* step() that runs to its end: no arrival, or every spawn cell occupied so
\* that each spawn_vehicle call falls through its loop; the vehicles are
\* stepped in the order ord.
Ticks(num_vehicles, ord, max_ticks) ==
    /\ ~raised
    /\ steps < max_ticks
    /\ num_vehicles = 0 \/ FreeSpawn = {}
    /\ Collect
    /\ arrivals' = num_vehicles
    /\ TickFrom(Decide(Ctl, veh), ord)
    /\ UNCHANGED <<light_strategy, decision_interval, current_id,
                   total_entered, raised, probe, orientation, built>>

Step(num_vehicles, ord) == Ticks(num_vehicles, ord, MaxTicks)

Next ==
    \/ \E p \in spawn_positions : PlaceVehicle(p)
    \/ \E n \in 1..MaxArrivals : StepRaises(n)
    \/ \E n \in 0..MaxArrivals : Step(n, ScheduleOrder(DOMAIN veh))

Spec == Init /\ [][Next]_vars

\* the same program with the vehicles of a tick stepped in any order, and at
\* most MaxOrderVehicles vehicles placed
PlaceVehicleAnyOrder(start_pos) ==
    /\ current_id < MaxOrderVehicles
    /\ PlaceVehicle(start_pos)

StepAnyOrder(num_vehicles) ==
    \E ord \in Orders(DOMAIN veh) : Step(num_vehicles, ord)

NextAnyOrder ==
    \/ \E p \in spawn_positions : PlaceVehicleAnyOrder(p)
    \/ \E n \in 1..MaxArrivals : StepRaises(n)
    \/ \E n \in 0..MaxArrivals : StepAnyOrder(n)

SpecAnyOrder == Init /\ [][NextAnyOrder]_vars

\* the queues and the green time of conduct_dutch_system (lines 238-267) on a
\* grid whose approach lanes are cs cells long (center_start = cs): the west
\* light at <<cs - 1, cs>> with vehicles on the cells a and b of its lane,
\* the north light at <<cs + 1, cs - 1>> with a vehicle on the cell c of its
\* lane
SensedQueues(cs, h_cells, v_cells, vs) ==
    [center_start |-> cs,
     veh |-> vs,
     horizontal_queue |->
         Cardinality(VehiclesIn(SensedOf(TRUE, <<cs - 1, cs>>, h_cells), vs)),
     vertical_queue |->
         Cardinality(VehiclesIn(SensedOf(FALSE, <<cs + 1, cs - 1>>, v_cells), vs))]

WithGreenTime(q) ==
    [q EXCEPT !.veh = [i \in DOMAIN q.veh |-> q.veh[i].pos]]
    @@ [green_time |-> GreenTimeSum(q.horizontal_queue, q.vertical_queue)]

SenseQueues(cs, a, b, c) ==
    /\ probe = None
    /\ steps = 0
    /\ DOMAIN veh = {}
    /\ ~raised
    /\ probe' = Some(WithGreenTime(SensedQueues(cs,
                    {<<x, cs>> : x \in 0..(cs - 1)},
                    {<<cs + 1, y>> : y \in 0..(cs - 1)},
                    [i \in 1..3 |-> [pos |-> IF i = 1 THEN <<a, cs>>
                                             ELSE IF i = 2 THEN <<b, cs>>
                                             ELSE <<cs + 1, c>>]])))
    /\ UNCHANGED <<light_strategy, decision_interval, current_id, current_agents,
                   total_entered, total_exited, last_exited_count, steps,
                   current_cycle_time, dutch_cycle_time, horizontal_phase,
                   phase_transition, pending_phase, lights, veh, raised, dec,
                   committed, arrivals, flow, flow_sum, orientation, built,
                   flips, in_force, evaluated>>

\* the adaptive strategy alone; the sensed vehicles stand on the approach
\* lanes or on the first zone cells behind the lights
InitDutch == Init /\ light_strategy = "dutch_system"

NextDutch ==
    \/ probe = None /\ \E p \in spawn_positions : PlaceVehicle(p)
    \/ probe = None /\ \E n \in 1..MaxArrivals : StepRaises(n)
    \/ probe = None /\ \E n \in 0..MaxArrivals : Step(n, ScheduleOrder(DOMAIN veh))
    \/ /\ probe = None
       /\ steps = 0
       /\ \E cs \in (MaxCenterStart - 1)..MaxCenterStart :
            \E a \in 0..(cs + 1), b \in 0..(cs + 1), c \in 0..(cs + 1) :
               a < b /\ SenseQueues(cs, a, b, c)

SpecDutch == InitDutch /\ [][NextDutch]_vars

\* the same program with room for a vehicle on every spawn cell, for
\* MaxSpawnTicks ticks
PlaceVehicleSpawn(start_pos) == Place(start_pos, MaxSpawnId)

StepRaisesSpawn(num_vehicles) ==
    /\ steps < MaxSpawnTicks
    /\ Raises(num_vehicles, MaxSpawnId + 1)

StepSpawn(num_vehicles) ==
    /\ steps < MaxSpawnTicks
    /\ Step(num_vehicles, ScheduleOrder(DOMAIN veh))

NextSpawn ==
    \/ \E p \in spawn_positions : PlaceVehicleSpawn(p)
    \/ \E n \in 1..MaxArrivals : StepRaisesSpawn(n)
    \/ \E n \in 0..MaxArrivals : StepSpawn(n)

SpecSpawn == Init /\ [][NextSpawn]_vars

\* the same program with up to MaxSpawnId vehicles, one for every approach,
\* for MaxCrossTicks ticks
StepRaisesCross(num_vehicles) ==
    /\ steps < MaxCrossTicks
    /\ Raises(num_vehicles, MaxSpawnId + 1)

StepCross(num_vehicles) ==
    /\ steps < MaxCrossTicks
    /\ Step(num_vehicles, ScheduleOrder(DOMAIN veh))

NextCross ==
    \/ \E p \in spawn_positions : PlaceVehicleSpawn(p)
    \/ \E n \in 1..MaxArrivals : StepRaisesCross(n)
    \/ \E n \in 0..MaxArrivals : StepCross(n)

SpecCross == Init /\ [][NextCross]_vars

(***************************************************************************)
(* TrafficModel.__init__ for any width, height and num_lanes: the network  *)
(* it builds, as the record net.                                           *)
(***************************************************************************)
\* Python's list(range(a, b))
PyRange(a, b) == [i \in 1..(b - a) |-> a + i - 1]

\* lines 104-112
BuiltSpawnPositions(width, height, incoming, outgoing) ==
    [i \in DOMAIN incoming |-> <<0, incoming[i]>>]
    \o [i \in DOMAIN outgoing |-> <<width - 1, outgoing[i]>>]
    \o [i \in DOMAIN outgoing |-> <<outgoing[i], 0>>]
    \o [i \in DOMAIN incoming |-> <<incoming[i], height - 1>>]

\* _initialize_traffic_lights, lines 127-139
BuiltLightPositions(num_lanes, cs, ce, incoming, outgoing) ==
    [i \in DOMAIN incoming |-> <<incoming[i] + num_lanes, cs - 1>>]
    \o [i \in DOMAIN outgoing |-> <<outgoing[i] - num_lanes, ce>>]
    \o [i \in DOMAIN incoming |-> <<cs - 1, incoming[i]>>]
    \o [i \in DOMAIN outgoing |-> <<ce, outgoing[i]>>]

\* TrafficLightAgent._determine_orientation on the built network
BuiltOrientation(pos, cs, ce, incoming, outgoing) ==
    \/ pos[1] = cs - 1 /\ pos[2] \in Range(incoming)
    \/ pos[1] = ce /\ pos[2] \in Range(outgoing)

\* BuiltLaneCells with the lanes running one cell into the zone
BuiltLaneCellsIntoZone(pos, horizontal, width, height, cs, ce) ==
    IF horizontal
    THEN IF pos[1] = cs - 1
         THEN [i \in 1..(cs + 1) |-> <<i - 1, pos[2]>>]
         ELSE [i \in 1..(width - ce + 1) |-> <<ce + i - 2, pos[2]>>]
    ELSE IF pos[2] = cs - 1
         THEN [i \in 1..(cs + 1) |-> <<pos[1], i - 1>>]
         ELSE [i \in 1..(height - ce + 1) |-> <<pos[1], ce + i - 2>>]

\* TrafficLightAgent.get_lane_cells on the built network
BuiltLaneCells(pos, horizontal, width, height, cs, ce) ==
    IF horizontal
    THEN IF pos[1] = cs - 1
         THEN [i \in DOMAIN PyRange(0, cs) |-> <<PyRange(0, cs)[i], pos[2]>>]
         ELSE [i \in DOMAIN PyRange(ce, width) |-> <<PyRange(ce, width)[i], pos[2]>>]
    ELSE IF pos[2] = cs - 1
         THEN [i \in DOMAIN PyRange(0, cs) |-> <<pos[1], PyRange(0, cs)[i]>>]
         ELSE [i \in DOMAIN PyRange(ce, height) |-> <<pos[1], PyRange(ce, height)[i]>>]

BuiltLight(pos, horizontal, width, height, cs, ce) ==
    [pos |-> pos,
     is_horizontal |-> horizontal,
     lane_cells |-> BuiltLaneCells(pos, horizontal, width, height, cs, ce)]

BuiltLights(positions, width, height, cs, ce, incoming, outgoing) ==
    [i \in DOMAIN positions |->
        BuiltLight(positions[i],
                   BuiltOrientation(positions[i], cs, ce, incoming, outgoing),
                   width, height, cs, ce)]

NetworkFrom(width, height, num_lanes, cs, ce, incoming, outgoing) ==
    [width |-> width,
     height |-> height,
     num_lanes |-> num_lanes,
     center_start |-> cs,
     center_end |-> ce,
     center_range |-> PyRange(cs, ce),
     incoming_lanes |-> incoming,
     outgoing_lanes |-> outgoing,
     spawn_positions |-> BuiltSpawnPositions(width, height, incoming, outgoing),
     traffic_lights |->
         BuiltLights(BuiltLightPositions(num_lanes, cs, ce, incoming, outgoing),
                     width, height, cs, ce, incoming, outgoing)]

\* lines 88-93
NetworkAt(width, height, num_lanes, cs) ==
    NetworkFrom(width, height, num_lanes, cs, cs + 2 * num_lanes,
                PyRange(cs, cs + num_lanes),
                PyRange(cs + 2 * num_lanes - num_lanes, cs + 2 * num_lanes))

Network(width, height, num_lanes) ==
    NetworkAt(width, height, num_lanes, (width - 2 * num_lanes) \div 2)

NoVehicles == [i \in {} |-> i]

\* the controller fields as __init__ leaves them (lines 73-84)
InitialCtl ==
    [horizontal_phase |-> TRUE, phase_transition |-> None, pending_phase |-> None,
     current_cycle_time |-> 0, dutch_cycle_time |-> 0]

\* TrafficModel(width, height, num_lanes): __init__ has no check of its
\* arguments and runs to its end.  The sizes are positive, the grid is at
\* least as high as wide, and with num_lanes > 0 every road, light and spawn
\* cell lies inside the grid (width >= 2 * num_lanes + 2), so that no cell
\* outside the grid is addressed.
Construct(width, height, num_lanes) ==
    /\ built = None
    /\ steps = 0
    /\ DOMAIN veh = {}
    /\ ~raised
    /\ probe = None
    /\ width >= 1
    /\ height >= width
    /\ num_lanes > 0 => width >= 2 * num_lanes + 2
    /\ built' = Some([net |-> Network(width, height, num_lanes),
                      ctl |-> InitialCtl,
                      steps |-> 0,
                      lookup |-> None])
    /\ UNCHANGED <<light_strategy, decision_interval, current_id, current_agents,
                   total_entered, total_exited, last_exited_count, steps,
                   current_cycle_time, dutch_cycle_time, horizontal_phase,
                   phase_transition, pending_phase, lights, veh, raised, dec,
                   committed, probe, arrivals, flow, flow_sum, orientation,
                   flips, in_force, evaluated>>

\* step() of the built model while it holds no vehicle and no vehicle is
\* spawned (no arrival, or no spawn cell): the timers, the strategy and the
\* commit check
StepBuilt ==
    /\ built # None
    /\ built[1].steps < MaxBuiltTicks
    /\ built' = Some([built[1] EXCEPT
                        !.ctl = Commit(Decide(built[1].ctl, NoVehicles), NoVehicles),
                        !.steps = @ + 1])
    /\ UNCHANGED <<light_strategy, decision_interval, current_id, current_agents,
                   total_entered, total_exited, last_exited_count, steps,
                   current_cycle_time, dutch_cycle_time, horizontal_phase,
                   phase_transition, pending_phase, lights, veh, raised, dec,
                   committed, probe, arrivals, flow, flow_sum, orientation,
                   flips, in_force, evaluated>>

\* lane_idx = lanes.index(c) if c in lanes else 0, followed by lanes[lane_idx]:
\* the index as Python counts it, the lane found, and whether lanes[lane_idx]
\* raises IndexError (the list is empty)
LaneLookup(lanes, c) ==
    [lane_idx |-> IF c \in Range(lanes) THEN LaneIdx(lanes, c) - 1 ELSE 0,
     raised |-> lanes = <<>>,
     lane |-> IF lanes = <<>> THEN None ELSE Some(lanes[LaneIdx(lanes, c)])]

\* the light position that is_at_traffic_light and _handle_intersection_approach
\* compute for a vehicle with the given direction and position
BuiltLightPos(net, direction, pos, l) ==
    IF l.raised THEN None
    ELSE IF direction = <<1, 0>> THEN Some(<<net.center_start - 1, l.lane[1]>>)
    ELSE IF direction = <<-1, 0>> THEN Some(<<net.center_end, l.lane[1]>>)
    ELSE IF direction = <<0, 1>> THEN Some(<<l.lane[1], net.center_start - 1>>)
    ELSE Some(<<l.lane[1], net.center_end>>)

LookedUpWith(net, direction, pos, l) ==
    [direction |-> direction,
     pos |-> pos,
     lane_idx |-> l.lane_idx,
     raised |-> l.raised,
     light_pos |-> BuiltLightPos(net, direction, pos, l)]

LookedUp(net, direction, pos) ==
    IF direction = <<1, 0>>
    THEN LookedUpWith(net, direction, pos, LaneLookup(net.incoming_lanes, pos[2]))
    ELSE IF direction = <<-1, 0>>
    THEN LookedUpWith(net, direction, pos, LaneLookup(net.outgoing_lanes, pos[2]))
    ELSE IF direction = <<0, 1>>
    THEN LookedUpWith(net, direction, pos, LaneLookup(net.outgoing_lanes, pos[1]))
    ELSE LookedUpWith(net, direction, pos, LaneLookup(net.incoming_lanes, pos[1]))

Directions == {<<1, 0>>, <<-1, 0>>, <<0, 1>>, <<0, -1>>}

\* is_at_traffic_light, or _handle_intersection_approach, called on the built
\* model for a vehicle whose direction and position were set by hand, as the
\* tests do (test_vehicle_at_red_light)
LookUp(direction, pos) ==
    /\ built # None
    /\ built[1].steps = 0
    /\ built[1].lookup = None
    /\ pos[1] < built[1].net.width
    /\ pos[2] < built[1].net.height
    /\ built' = Some([built[1] EXCEPT
                        !.lookup = Some(LookedUp(built[1].net, direction, pos))])
    /\ UNCHANGED <<light_strategy, decision_interval, current_id, current_agents,
                   total_entered, total_exited, last_exited_count, steps,
                   current_cycle_time, dutch_cycle_time, horizontal_phase,
                   phase_transition, pending_phase, lights, veh, raised, dec,
                   committed, probe, arrivals, flow, flow_sum, orientation,
                   flips, in_force, evaluated>>

NextConfig ==
    \/ \E width \in 1..MaxBuiltSize, height \in 1..MaxBuiltSize,
          num_lanes \in LaneCounts : Construct(width, height, num_lanes)
    \/ StepBuilt
    \/ \E direction \in Directions :
          \E x \in 0..(MaxBuiltSize - 1), y \in 0..(MaxBuiltSize - 1) :
             LookUp(direction, <<x, y>>)

SpecConfig == Init /\ [][NextConfig]_vars

\* The strategies with a Clearing transition, run for MaxLiveTicks ticks.
\* step() is called again and again for as long as no call has raised: the
\* caller's loop (run_batch.py, server.py) keeps ticking.
InitLive == Init /\ light_strategy \in {"auction", "dutch_system"}

StepLive ==
    \E n \in 0..MaxArrivals : Ticks(n, ScheduleOrder(DOMAIN veh), MaxLiveTicks)

NextLive ==
    \/ \E p \in spawn_positions : PlaceVehicle(p)
    \/ \E n \in 1..MaxArrivals : Raises(n, MaxId)
    \/ StepLive

\* a step() call that returns: by NextLive these are the StepLive steps, and
\* one is possible exactly when no call has raised and ticks remain
StepReturns == ~raised /\ steps < MaxLiveTicks /\ steps' = steps + 1

SpecLive == InitLive /\ [][NextLive]_vars /\ WF_steps(StepReturns)

\* The adaptive strategy run for MaxHoldTicks ticks, long enough for a second
\* request.
StepHold ==
    \E n \in 0..MaxArrivals : Ticks(n, ScheduleOrder(DOMAIN veh), MaxHoldTicks)

NextHold ==
    \/ \E p \in spawn_positions : PlaceVehicle(p)
    \/ \E n \in 1..MaxArrivals : Raises(n, MaxId)
    \/ StepHold

SpecHold == InitDutch /\ [][NextHold]_vars

\* The strategies with a Clearing transition, run for MaxPendingTicks ticks with
\* at most MaxOrderVehicles vehicles: the auction built with any
\* decision_interval from 1 to Interval, the adaptive strategy, which does not
\* read decision_interval, with Interval.
InitPending ==
    /\ InitWith({"auction", "dutch_system"}, 1..Interval)
    /\ light_strategy = "dutch_system" => decision_interval = Interval

StepPending ==
    \E n \in 0..MaxArrivals : Ticks(n, ScheduleOrder(DOMAIN veh), MaxPendingTicks)

NextPending ==
    \/ \E p \in spawn_positions : PlaceVehicleAnyOrder(p)
    \/ \E n \in 1..MaxArrivals : Raises(n, MaxOrderVehicles + 1)
    \/ StepPending

SpecPending == InitPending /\ [][NextPending]_vars

(***************************************************************************)
(* Properties.                                                             *)
(***************************************************************************)
InZone(pos) ==
    /\ center_start <= pos[1] /\ pos[1] < center_end
    /\ center_start <= pos[2] /\ pos[2] < center_end

ZoneVehicles(vs) == {i \in DOMAIN vs : InZone(vs[i].pos)}

\* the step from one tick boundary to the next
Tick == steps' = steps + 1

\* C1: whenever a tick commits the pending phase out of Clearing (the
\* transition goes from Clearing to None, horizontal_phase takes the pending
\* value), no conflict-zone cell holds a vehicle at the post-move check; and
\* is_intersection_clear is true exactly when no vehicle stands in the zone.
C1_ClearanceInvariant ==
    /\ committed => /\ ZoneVehicles(veh) = {}
                    /\ dec.phase_transition = Some("clearing")
                    /\ phase_transition = None
                    /\ Some(horizontal_phase) = dec.pending_phase
    /\ is_intersection_clear(veh) <=> ZoneVehicles(veh) = {}

\* a commit in a tick in which the auction did not fire: the Clearing was
\* entered in an earlier tick and waited for the zone to drain
C1_Witness ==
    /\ committed
    /\ light_strategy = "auction"
    /\ current_cycle_time # 0
    /\ DOMAIN veh # {}

\* C2: in no tick does the strategy part change horizontal_phase; it changes
\* only by the commit of a pending phase out of Clearing.
C2_NoImmediateFlip ==
    [][Tick => /\ dec'.horizontal_phase = horizontal_phase
               /\ horizontal_phase' # horizontal_phase => committed']_vars

\* C3: no grid cell holds more than one vehicle.
C3_NoOverlap ==
    \A i, j \in DOMAIN veh : i # j => veh[i].pos # veh[j].pos

\* a vehicle with speed 1 that has waited, right behind a vehicle stopped at
\* its light: its move is the one _move_forward refuses
C3_Witness ==
    \E i, j \in DOMAIN veh :
        /\ i # j
        /\ veh[j].pos = <<veh[i].pos[1] + veh[i].direction[1],
                          veh[i].pos[2] + veh[i].direction[2]>>
        /\ veh[j].is_stopped_at_light
        /\ veh[i].speed = 1
        /\ veh[i].waiting_time > 0

\* a light gates horizontal traffic when the vehicles spawned for the east or
\* west direction have it as their light
GatesHorizontal(p) ==
    \E sp \in spawn_positions :
        /\ _determine_direction(sp)[2] = 0
        /\ light_pos_of(VehicleAgent(sp)) = p

\* C4: after a tick every light is Red if the controller was Clearing when
\* the lights stepped, and otherwise Green iff its orientation is the phase;
\* the colour depends on nothing else (not on the colour before).
C4_LightColour ==
    /\ steps = 0 => \A p \in DOMAIN lights : lights[p] = "Red"
    /\ steps > 0 =>
         \A p \in DOMAIN lights :
            lights[p] = IF dec.phase_transition = Some("clearing") THEN "Red"
                        ELSE IF GatesHorizontal(p) = dec.horizontal_phase THEN "Green"
                        ELSE "Red"

\* the vertical group Green after a flip, and all lights Red in a Clearing
C4_Witness ==
    /\ dec.horizontal_phase = FALSE
    /\ dec.phase_transition = None
    /\ \E p, q \in DOMAIN lights : lights[p] = "Green" /\ lights[q] = "Red"

\* C5: a vehicle on its light's cell while that light is Red in this tick
\* ends the tick on the same cell with speed 0, stopped at the light, not
\* stopped for a queue, and its waiting_time one higher.
C5_RedLightCompliance ==
    [][Tick =>
        \A id \in DOMAIN veh :
            (is_at_traffic_light(veh[id]) /\ lights'[veh[id].pos] = "Red") =>
                /\ id \in DOMAIN veh'
                /\ veh'[id] = [veh[id] EXCEPT !.speed = 0,
                                              !.is_stopped_at_light = TRUE,
                                              !.is_stopped_for_queue = FALSE,
                                              !.has_passed_light = FALSE,
                                              !.waiting_time = veh[id].waiting_time + 1]]_vars

\* a vehicle that has stood at its Red light for three ticks
C5_Witness ==
    \E id \in DOMAIN veh :
        /\ is_at_traffic_light(veh[id])
        /\ veh[id].is_stopped_at_light
        /\ veh[id].speed = 0
        /\ veh[id].waiting_time = 3
        /\ lights[veh[id].pos] = "Red"

\* the world the vehicles of the next tick start from
World == [veh |-> veh, current_agents |-> current_agents,
          total_exited |-> total_exited]

\* C6: the vehicles' steps of a tick leave the same state in whatever order
\* the vehicles are processed.
C6_OrderIndependent ==
    \A ord \in Orders(DOMAIN veh) :
        RunVehicles(ord, World, LightsOf(Decide(Ctl, veh)))
            = RunVehicles(ScheduleOrder(DOMAIN veh), World, LightsOf(Decide(Ctl, veh)))

\* a vehicle is on its approach while it has not reached the zone
OnApproach(v) ==
    IF v.direction = <<1, 0>> THEN v.pos[1] < center_start
    ELSE IF v.direction = <<-1, 0>> THEN v.pos[1] >= center_end
    ELSE IF v.direction = <<0, 1>> THEN v.pos[2] < center_start
    ELSE v.pos[2] >= center_end

\* the vehicles approaching on the horizontal, resp. the vertical, roads
Approaching(horizontal) ==
    {i \in DOMAIN veh : (veh[i].direction[2] = 0) = horizontal /\ OnApproach(veh[i])}

\* C7: when the auction runs (the interval has elapsed), with H and V the
\* sums of the waiting times of the vehicles on the horizontal and vertical
\* approaches, horizontal is selected iff H >= V; if the selection differs
\* from horizontal_phase the controller enters Clearing with the selection
\* pending and horizontal_phase unchanged, otherwise nothing changes.
C7_AuctionDecision ==
    [][(Tick /\ light_strategy = "auction") =>
        IF current_cycle_time + 1 >= decision_interval
        THEN /\ current_cycle_time' = 0
             /\ dec'.horizontal_phase = horizontal_phase
             /\ IF (TotalWait(Approaching(TRUE), veh) >= TotalWait(Approaching(FALSE), veh))
                      # horizontal_phase
                THEN /\ dec'.phase_transition = Some("clearing")
                     /\ dec'.pending_phase = Some(~horizontal_phase)
                ELSE /\ dec'.phase_transition = phase_transition
                     /\ dec'.pending_phase = pending_phase
        ELSE /\ current_cycle_time' = current_cycle_time + 1
             /\ dec'.horizontal_phase = horizontal_phase
             /\ dec'.phase_transition = phase_transition
             /\ dec'.pending_phase = pending_phase]_vars

\* an auction that ran in the vertical phase and selected horizontal, with a
\* vehicle that has waited on a horizontal approach
C7_Witness ==
    /\ light_strategy = "auction"
    /\ steps > 0
    /\ current_cycle_time = 0
    /\ dec.horizontal_phase = FALSE
    /\ dec.phase_transition = Some("clearing")
    /\ dec.pending_phase = Some(TRUE)
    /\ \E i \in Approaching(TRUE) : veh[i].waiting_time > 1

\* C8: under fixed_cycle with interval D the phase has flipped exactly
\* floor(k / D) times after k ticks, and the cycle timer restarts from 0 at
\* each flip.
C8_FixedCycleTiming ==
    light_strategy = "fixed_cycle" =>
        /\ flips = steps \div decision_interval
        /\ current_cycle_time = steps % decision_interval
        /\ horizontal_phase = (flips % 2 = 0)
        /\ phase_transition = None

\* the third flip, at tick 3 * D
C8_Witness ==
    /\ light_strategy = "fixed_cycle"
    /\ steps = 3 * decision_interval
    /\ flips = 3
    /\ current_cycle_time = 0
    /\ horizontal_phase = FALSE

\* the vehicles the adaptive strategy counts for an orientation
Sensed(horizontal) ==
    {i \in Approaching(horizontal) :
        Abs(veh[i].pos[1] - light_pos_of(veh[i])[1])
        + Abs(veh[i].pos[2] - light_pos_of(veh[i])[2]) <= sensor_range}

TargetGreen(h, v) ==
    IF h + v = 0 THEN min_green_time
    ELSE min_green_time + ((max_green_time - min_green_time) * h) \div (h + v)

\* the green time of every combination of queue lengths up to MaxQueue
GreenTimeInRange ==
    \A h, v \in 0..MaxQueue :
        /\ GreenTimeSum(h, v) = TargetGreen(h, v)
        /\ GreenTimeSum(h, v) \in min_green_time..max_green_time

\* 1 if the lane cell at coordinate k is in the lane of a light at cs - 1 and
\* within sensor_range of it
Counted(cs, k) == IF k <= cs - 1 /\ (cs - 1) - k <= sensor_range THEN 1 ELSE 0

\* C9: every evaluation of the adaptive strategy computes the target green
\* time minGreen + (maxGreen - minGreen) * hq / tq, truncated, from the
\* vehicles on lane cells within sensor_range of their light; it lies in
\* [minGreen, maxGreen] and is minGreen when no vehicle is sensed; while
\* Clearing the strategy changes nothing.
C9_AdaptiveGreenTime ==
    [][/\ (Tick /\ light_strategy = "dutch_system") =>
            IF phase_transition = None
            THEN /\ dec'.green_time =
                        TargetGreen(Cardinality(Sensed(TRUE)), Cardinality(Sensed(FALSE)))
                 /\ dec'.green_time \in min_green_time..max_green_time
                 /\ Sensed(TRUE) \cup Sensed(FALSE) = {} => dec'.green_time = min_green_time
            ELSE /\ dec'.horizontal_phase = horizontal_phase
                 /\ dec'.phase_transition = phase_transition
                 /\ dec'.pending_phase = pending_phase
                 /\ dutch_cycle_time' = dutch_cycle_time + 1
       /\ probe' # None =>
            /\ probe'[1].horizontal_queue =
                  Counted(probe'[1].center_start, probe'[1].veh[1][1])
                  + Counted(probe'[1].center_start, probe'[1].veh[2][1])
            /\ probe'[1].vertical_queue =
                  Counted(probe'[1].center_start, probe'[1].veh[3][2])
            /\ probe'[1].green_time =
                  TargetGreen(probe'[1].horizontal_queue, probe'[1].vertical_queue)
       /\ GreenTimeInRange]_vars

\* two vehicles in the west lane, one of them farther than sensor_range from
\* the light, and one sensed vehicle in the north lane: the target is strictly
\* between the two limits
C9_Witness ==
    /\ probe # None
    /\ probe[1].veh[1][1] < (probe[1].center_start - 1) - sensor_range
    /\ probe[1].veh[2][1] <= probe[1].center_start - 1
    /\ probe[1].horizontal_queue = 1
    /\ probe[1].vertical_queue = 1
    /\ probe[1].green_time > min_green_time
    /\ probe[1].green_time < max_green_time

\* the car_speed cells ahead of v are road cells of the grid without a vehicle
AheadClear(v) ==
    \A k \in 1..car_speed :
        /\ InGrid(v.pos[1] + k * v.direction[1], v.pos[2] + k * v.direction[2])
        /\ IsRoad(v.pos[1] + k * v.direction[1], v.pos[2] + k * v.direction[2])
        /\ VehiclesAt(veh, <<v.pos[1] + k * v.direction[1],
                             v.pos[2] + k * v.direction[2]>>) = {}

\* C10: a vehicle of a model with cruise speed car_speed that is moving, has
\* car_speed clear road cells ahead and its lights Green advances car_speed
\* cells in the tick.
C10_MultiCellMovement ==
    [][Tick =>
        \A id \in DOMAIN veh :
            (/\ DOMAIN veh = {id}
             /\ veh[id].speed > 0
             /\ lights'[light_pos_of(veh[id])] = "Green"
             /\ AheadClear(veh[id])) =>
                /\ id \in DOMAIN veh'
                /\ veh'[id].pos = <<veh[id].pos[1] + car_speed * veh[id].direction[1],
                                    veh[id].pos[2] + car_speed * veh[id].direction[2]>>]_vars

\* step() was called: it ran to its end or an exception left it
StepCalled == Tick \/ (raised' /\ ~raised)

AllSpawnOccupied ==
    \A p \in spawn_positions : \E i \in DOMAIN veh : veh[i].pos = p

\* C11: a step() with arrivals while every spawn cell holds a vehicle raises
\* nothing and creates no vehicle: no id is taken, total_entered is unchanged,
\* no vehicle is added to the grid and the schedule, current_agents does not
\* grow; and a tick without arrivals creates no vehicle either (a dropped
\* arrival is not kept for later).
C11_CapacityExhaustion ==
    [][/\ (StepCalled /\ AllSpawnOccupied /\ arrivals' > 0) =>
            /\ ~raised'
            /\ current_id' = current_id
            /\ total_entered' = total_entered
            /\ DOMAIN veh' \subseteq DOMAIN veh
            /\ current_agents' = current_agents - Cardinality(DOMAIN veh \ DOMAIN veh')
       /\ (StepCalled /\ arrivals' = 0) =>
            /\ current_id' = current_id
            /\ total_entered' = total_entered
            /\ DOMAIN veh' \subseteq DOMAIN veh]_vars

\* the state after a step() that had an arrival and found every spawn cell
\* occupied
C11_Witness ==
    /\ arrivals > 0
    /\ ~raised
    /\ steps > 0
    /\ current_agents = Cardinality(spawn_positions)
    /\ total_entered = Cardinality(spawn_positions)

\* C12: a step() with an arrival while some spawn cell holds no vehicle does
\* not raise and creates a vehicle on a spawn cell that held none; with one
\* arrival current_agents and total_entered grow by exactly 1.
C12_SuccessfulSpawn ==
    [][(StepCalled /\ ~AllSpawnOccupied /\ arrivals' > 0) =>
        /\ ~raised'
        /\ \E id \in DOMAIN veh' \ DOMAIN veh :
              VehiclesAt(veh, veh'[id].pos) = {}
        /\ total_entered' > total_entered
        /\ arrivals' = 1 => /\ total_entered' = total_entered + 1
                            /\ Cardinality(DOMAIN veh' \ DOMAIN veh) = 1]_vars

\* the cell ahead of v lies outside the grid
NextCellOutside(v) ==
    \/ v.pos[1] + v.direction[1] < 0 \/ v.pos[1] + v.direction[1] >= Width
    \/ v.pos[2] + v.direction[2] < 0 \/ v.pos[2] + v.direction[2] >= Height

\* C13: in a tick exactly the vehicles whose next cell lies outside the grid
\* are removed; total_exited grows and current_agents shrinks by the number of
\* removed vehicles; no other step removes a vehicle or counts an exit, and a
\* new vehicle never takes the id of an earlier one.
C13_Exit ==
    [][/\ Tick =>
            /\ \A id \in DOMAIN veh :
                  id \notin DOMAIN veh' <=> NextCellOutside(veh[id])
            /\ DOMAIN veh' \subseteq DOMAIN veh
            /\ total_exited' = total_exited + Cardinality(DOMAIN veh \ DOMAIN veh')
            /\ current_agents' = current_agents - Cardinality(DOMAIN veh \ DOMAIN veh')
       /\ ~Tick =>
            /\ DOMAIN veh \subseteq DOMAIN veh'
            /\ total_exited' = total_exited
            /\ \A id \in DOMAIN veh' \ DOMAIN veh : id > current_id]_vars

\* two vehicles have left the grid and a third is on its way
C13_Witness ==
    /\ total_exited = 2
    /\ current_agents = 1
    /\ DOMAIN veh = {3}

\* C14: no model exists that was constructed with a lane count or a grid size
\* of zero or less, or with an empty conflict zone.
C14_ConfigFailsFast ==
    built # None =>
        /\ built[1].net.num_lanes >= 1
        /\ built[1].net.width >= 1
        /\ built[1].net.height >= 1
        /\ built[1].net.center_range # <<>>

\* east from the west edge, west from the east edge, south from the top edge,
\* north from the bottom edge
SpawnDirection(pos) ==
    IF pos[1] = 0 /\ pos[2] \in center_start..(center_start + NumLanes - 1)
    THEN <<1, 0>>
    ELSE IF pos[1] = Width - 1 /\ pos[2] \in (center_end - NumLanes)..(center_end - 1)
    THEN <<-1, 0>>
    ELSE IF pos[2] = 0 /\ pos[1] \in (center_end - NumLanes)..(center_end - 1)
    THEN <<0, 1>>
    ELSE <<0, -1>>

\* C15: a vehicle gets its direction from its spawn cell when it is created,
\* and every step leaves the direction of every vehicle as it was.
C15_DirectionImmutable ==
    [][/\ \A id \in DOMAIN veh \cap DOMAIN veh' :
            veh'[id].direction = veh[id].direction
       /\ \A id \in DOMAIN veh' \ DOMAIN veh :
            /\ veh'[id].pos \in spawn_positions
            /\ veh'[id].direction = SpawnDirection(veh'[id].pos)]_vars

\* a northbound and a westbound vehicle that have crossed the zone
C15_Witness ==
    \E i, j \in DOMAIN veh :
        /\ veh[i].direction = <<0, -1>> /\ veh[i].pos[2] < center_start
        /\ veh[j].direction = <<-1, 0>> /\ veh[j].pos[1] < center_start

\* C16: every light's is_horizontal is what the constructor computed from
\* the light's position (true iff the light is at x = center_start - 1 on an
\* incoming-lane row or at x = center_end on an outgoing-lane row), and no
\* step changes it; the colours do change.
C16_OrientationImmutable ==
    [][/\ orientation' = orientation
       /\ \A p \in DOMAIN orientation :
            orientation[p] =
                ((p[1] = center_start - 1
                    /\ p[2] \in center_start..(center_start + NumLanes - 1))
                 \/ (p[1] = center_end
                    /\ p[2] \in (center_end - NumLanes)..(center_end - 1)))
       /\ \A p \in DOMAIN orientation : orientation[p] = GatesHorizontal(p)]_vars

\* after two phase changes the vertical lights are Green and the horizontal
\* lights Red, with every light's orientation as constructed
C16_Witness ==
    /\ flips >= 2
    /\ ~horizontal_phase
    /\ \E p, q \in DOMAIN lights :
          /\ orientation[p] /\ ~orientation[q]
          /\ lights[p] # lights[q]

LaneWellFormed(net, light) ==
    /\ light.lane_cells # <<>>
    /\ light.pos \in Range(light.lane_cells)
    /\ \A c \in Range(light.lane_cells) :
          /\ c[1] \in 0..(net.width - 1) /\ c[2] \in 0..(net.height - 1)
          /\ ~(c[1] \in Range(net.center_range) /\ c[2] \in Range(net.center_range))
    /\ \A i \in 1..(Len(light.lane_cells) - 1) :
          light.lane_cells[i + 1] =
              IF light.is_horizontal
              THEN <<light.lane_cells[i][1] + 1, light.lane_cells[i][2]>>
              ELSE <<light.lane_cells[i][1], light.lane_cells[i][2] + 1>>

\* the lane starts on the spawn cell at the grid edge and ends on the light's
\* cell next to the conflict zone
LaneEdgeFirst(net, light) ==
    /\ Head(light.lane_cells) \in Range(net.spawn_positions)
    /\ light.lane_cells[Len(light.lane_cells)] = light.pos

\* the lane starts on the light's cell next to the conflict zone and ends on
\* the spawn cell at the grid edge
LaneBoundaryFirst(net, light) ==
    /\ Head(light.lane_cells) = light.pos
    /\ light.lane_cells[Len(light.lane_cells)] \in Range(net.spawn_positions)

\* the light stands before the zone on the west or the north approach
WestOrNorth(net, light) ==
    \/ light.pos[1] = net.center_start - 1 /\ light.is_horizontal
    \/ light.pos[2] = net.center_start - 1 /\ ~light.is_horizontal

LanesDisjoint(net) ==
    \A i, j \in DOMAIN net.traffic_lights :
        i # j => Range(net.traffic_lights[i].lane_cells)
                 \cap Range(net.traffic_lights[j].lane_cells) = {}

\* C18 (amended): every light's get_lane_cells is its approach lane between
\* the spawn cell at the grid edge and the light's own cell at the zone
\* boundary, in order of increasing coordinate: from the grid edge to the
\* boundary for the west and north approaches, from the boundary to the grid
\* edge for the east and south approaches; it contains the light's cell and
\* no conflict-zone cell, and the lanes of two different lights share no cell.
C18_LaneCells ==
    built # None =>
        /\ Len(built[1].net.traffic_lights) = 4 * Max(built[1].net.num_lanes, 0)
        /\ \A i \in DOMAIN built[1].net.traffic_lights :
              /\ LaneWellFormed(built[1].net, built[1].net.traffic_lights[i])
              /\ IF WestOrNorth(built[1].net, built[1].net.traffic_lights[i])
                 THEN LaneEdgeFirst(built[1].net, built[1].net.traffic_lights[i])
                 ELSE LaneBoundaryFirst(built[1].net, built[1].net.traffic_lights[i])
        /\ LanesDisjoint(built[1].net)

\* a built network with two lanes per approach on a grid higher than wide,
\* its east and south lanes longer than one cell
C18_Witness ==
    /\ built # None
    /\ built[1].net.num_lanes = 2
    /\ built[1].net.height > built[1].net.width
    /\ \E i \in DOMAIN built[1].net.traffic_lights :
          /\ ~WestOrNorth(built[1].net, built[1].net.traffic_lights[i])
          /\ Len(built[1].net.traffic_lights[i].lane_cells) > 1

\* C18 as stated: every light's lane runs from the grid edge to the
\* conflict-zone boundary.
C18_EdgeToBoundary ==
    built # None =>
        /\ \A i \in DOMAIN built[1].net.traffic_lights :
              /\ LaneWellFormed(built[1].net, built[1].net.traffic_lights[i])
              /\ LaneEdgeFirst(built[1].net, built[1].net.traffic_lights[i])
        /\ LanesDisjoint(built[1].net)

\* the vehicles that a tick moves from outside the conflict zone into it
Entering ==
    {id \in DOMAIN veh \cap DOMAIN veh' :
        ~InZone(veh[id].pos) /\ InZone(veh'[id].pos)}

\* C19: a vehicle enters the conflict zone only from the cell of its light
\* and only in a tick in which that light is Green; in every tick that the
\* controller spends in Clearing (from the tick of the request to the tick of
\* the commit) no vehicle enters the zone and the number of vehicles inside
\* does not grow; outside the ticks no vehicle enters the zone.
C19_ZoneDrains ==
    [][/\ Tick =>
            /\ \A id \in Entering :
                  /\ veh[id].pos \in DOMAIN lights
                  /\ orientation[veh[id].pos] = (veh[id].direction[1] # 0)
                  /\ lights'[veh[id].pos] = "Green"
            /\ dec'.phase_transition = Some("clearing") =>
                  /\ Entering = {}
                  /\ ZoneVehicles(veh') \subseteq ZoneVehicles(veh)
            /\ \A id \in DOMAIN veh' \ DOMAIN veh : ~InZone(veh'[id].pos)
       /\ ~Tick =>
            /\ Entering = {}
            /\ ZoneVehicles(veh') = ZoneVehicles(veh)]_vars

\* after a tick spent in Clearing the zone still holds a vehicle, which
\* entered under Green, and another vehicle is held at its Red light
C19_Witness ==
    /\ dec.phase_transition = Some("clearing")
    /\ phase_transition = Some("clearing")
    /\ ZoneVehicles(veh) # {}
    /\ \E id \in DOMAIN veh :
          /\ is_at_traffic_light(veh[id])
          /\ veh[id].is_stopped_at_light
          /\ lights[veh[id].pos] = "Red"

\* C20: under auction and dutch_system, a Clearing that is requested with at
\* least ClearingTicks ticks still to run ends, unless a step() raises: in the
\* tick whose vehicle moves leave the conflict zone empty, horizontal_phase
\* becomes the pending phase and phase_transition and pending_phase become
\* None; and a tick that leaves a vehicle in the zone stays in Clearing.
C20_ClearingEnds ==
    /\ [][(Tick /\ dec'.phase_transition = Some("clearing")) =>
            IF ZoneVehicles(veh') = {}
            THEN /\ horizontal_phase' = dec'.pending_phase[1]
                 /\ phase_transition' = None
                 /\ pending_phase' = None
            ELSE /\ phase_transition' = Some("clearing")
                 /\ pending_phase' = dec'.pending_phase
                 /\ horizontal_phase' = dec'.horizontal_phase]_vars
    /\ (phase_transition = Some("clearing") /\ steps + ClearingTicks <= MaxLiveTicks)
          ~> (phase_transition = None \/ raised)

\* a Clearing that lasted more than one tick has just been committed, under
\* the adaptive strategy
C20_Witness ==
    /\ light_strategy = "dutch_system"
    /\ committed
    /\ dec.phase_transition = Some("clearing")
    /\ phase_transition = None
    /\ dutch_cycle_time >= 1

\* the cell ahead of v lies in the conflict zone
NextCellInZone(v) ==
    InZone(<<v.pos[1] + v.direction[1], v.pos[2] + v.direction[2]>>)

\* C21: a vehicle that starts a tick off its light cell with its next cell in
\* the conflict zone, while its gating light is Red in this tick, ends the
\* tick on the same cell with speed 0 and its queue flag cleared.
C21_ApproachRecheck ==
    [][Tick =>
        \A id \in DOMAIN veh :
            (/\ ~is_at_traffic_light(veh[id])
             /\ NextCellInZone(veh[id])
             /\ lights'[light_pos_of(veh[id])] = "Red") =>
                /\ id \in DOMAIN veh'
                /\ veh'[id].pos = veh[id].pos
                /\ veh'[id].speed = 0
                /\ ~veh'[id].is_stopped_for_queue]_vars

\* vehicle a stands within sensing_range cells straight ahead of v, inside the
\* grid
AheadInRange(v, a) ==
    \E i \in 1..sensing_range :
        /\ a.pos = <<v.pos[1] + v.direction[1] * i, v.pos[2] + v.direction[2] * i>>
        /\ InGrid(a.pos[1], a.pos[2])

\* vehicle a stands still with speed 0 through the tick
StandsStill(a) ==
    /\ a \in DOMAIN veh'
    /\ veh[a].speed = 0 /\ veh'[a].speed = 0
    /\ veh'[a].pos = veh[a].pos

\* C22: a vehicle that is not stopped at a light (and neither on its light
\* cell nor about to enter the zone), moving or already stopped for a queue,
\* with a vehicle standing still at speed 0 within sensing_range cells ahead,
\* ends the tick stopped for the queue: is_stopped_for_queue true, speed 0,
\* position unchanged; and this in every tick in which the standing vehicle
\* stays in range.
C22_QueueDetection ==
    [][Tick =>
        \A id \in DOMAIN veh :
            (/\ ~veh[id].is_stopped_at_light
             /\ ~is_at_traffic_light(veh[id])
             /\ ~NextCellInZone(veh[id])
             /\ veh[id].speed > 0 \/ veh[id].is_stopped_for_queue
             /\ \E a \in DOMAIN veh \ {id} :
                   AheadInRange(veh[id], veh[a]) /\ StandsStill(a)) =>
                /\ id \in DOMAIN veh'
                /\ veh'[id].is_stopped_for_queue
                /\ veh'[id].speed = 0
                /\ veh'[id].pos = veh[id].pos]_vars

\* the adaptive strategy requests a flip in this tick
Requested ==
    /\ Tick
    /\ light_strategy = "dutch_system"
    /\ phase_transition = None
    /\ dec'.phase_transition = Some("clearing")

\* C23 (amended): under dutch_system a flip to the opposite phase is requested
\* exactly in a tick outside Clearing in which the adaptive cycle timer, which
\* counts the ticks since the previous request (since construction before
\* the first), Clearing ticks included, reaches targetGreen + clearanceTime,
\* hence at least minGreen + clearanceTime; the request resets the timer to 0
\* and every other tick advances it by 1.
C23_HoldTime ==
    [][(Tick /\ light_strategy = "dutch_system") =>
        IF Requested
        THEN /\ dutch_cycle_time + 1 >= dec'.green_time + clearance_time
             /\ dutch_cycle_time + 1 >= min_green_time + clearance_time
             /\ dec'.pending_phase = Some(~horizontal_phase)
             /\ dutch_cycle_time' = 0
        ELSE /\ dutch_cycle_time' = dutch_cycle_time + 1
             /\ phase_transition = None =>
                   dutch_cycle_time + 1 < dec'.green_time + clearance_time]_vars

\* the second request, one full cycle after the first, whose Clearing ended
\* a tick after it was requested
C23_Witness ==
    /\ light_strategy = "dutch_system"
    /\ dec.phase_transition = Some("clearing")
    /\ dutch_cycle_time = 0
    /\ flips >= 1
    /\ steps = 2 * (min_green_time + clearance_time)

\* C23 as stated: at a request the phase has been in force, committed and not
\* Clearing, for at least targetGreen + clearanceTime ticks (the tick of the
\* request counted).
C23_HeldInForce ==
    [][Requested => in_force + 1 >= dec'.green_time + clearance_time]_vars

\* C24: a tick runs the controller's decision, then every light's step, then
\* the vehicles, then the clearance check: the lights show the colours of
\* this tick's decision, a vehicle on its light cell stays when this tick's
\* colour is Red and is not held when it is Green, whatever the colour the
\* previous tick left, and a Clearing is committed exactly when the zone is
\* empty after the moves; a step() whose spawn raises has changed neither the
\* controller nor a light nor a vehicle.
C24_TickOrdering ==
    [][/\ Tick =>
            /\ lights' = [p \in DOMAIN lights |->
                            IF dec'.phase_transition # None THEN "Red"
                            ELSE IF orientation[p] = dec'.horizontal_phase
                                 THEN "Green" ELSE "Red"]
            /\ \A id \in DOMAIN veh :
                  is_at_traffic_light(veh[id]) =>
                      /\ id \in DOMAIN veh'
                      /\ veh'[id].is_stopped_at_light = (lights'[veh[id].pos] = "Red")
                      /\ lights'[veh[id].pos] = "Red" => veh'[id].pos = veh[id].pos
            /\ dec'.phase_transition = Some("clearing") =>
                  (phase_transition' = None <=> ZoneVehicles(veh') = {})
       /\ (raised' /\ ~raised) =>
            UNCHANGED <<lights, veh, horizontal_phase, phase_transition,
                        pending_phase, current_cycle_time, dutch_cycle_time,
                        steps>>]_vars

\* the first auction has requested a flip in this tick, and a vehicle that
\* reached the cell of its light while the light was Green has been stopped
\* there by this tick's Red
C24_Witness ==
    /\ light_strategy = "auction"
    /\ dec.phase_transition = Some("clearing")
    /\ steps = decision_interval
    /\ \E id \in DOMAIN veh :
          /\ is_at_traffic_light(veh[id])
          /\ orientation[veh[id].pos] = dec.horizontal_phase
          /\ veh[id].is_stopped_at_light
          /\ veh[id].waiting_time = 1
          /\ lights[veh[id].pos] = "Red"

\* the cell ahead of v
NextCell(v) == <<v.pos[1] + v.direction[1], v.pos[2] + v.direction[2]>>

\* vehicle id, stopped at its light, finds the light Green in this tick
Resumes(id) ==
    /\ veh[id].is_stopped_at_light
    /\ veh[id].speed = 0
    /\ is_at_traffic_light(veh[id])
    /\ lights'[veh[id].pos] = "Green"

Halted(id) ==
    /\ is_at_traffic_light(veh[id])
    /\ lights'[veh[id].pos] = "Red"

\* C26: a vehicle that is not halted by a Red light on its light cell ends
\* the tick with its waiting_time one higher when its speed after the light
\* check (1 when it resumes on Green, its speed at the start of the tick
\* otherwise) is 0, and with waiting_time 0 otherwise; a halted vehicle's
\* waiting_time is one higher; in no tick does waiting_time grow by more than
\* 1, and it is never negative.
C26_WaitingTime ==
    [][Tick =>
        \A id \in DOMAIN veh \cap DOMAIN veh' :
            /\ veh'[id].waiting_time =
                  IF Halted(id) THEN veh[id].waiting_time + 1
                  ELSE IF veh[id].speed = 0 /\ ~Resumes(id)
                       THEN veh[id].waiting_time + 1
                       ELSE 0
            /\ veh'[id].waiting_time <= veh[id].waiting_time + 1
            /\ veh'[id].waiting_time >= 0
            /\ veh[id].waiting_time >= 0]_vars

\* a vehicle that stood at speed 0 without being halted by a light (stopped
\* for a queue) has counted that tick and moves again
C26_Witness ==
    \E id \in DOMAIN veh :
        /\ veh[id].waiting_time = 1
        /\ veh[id].speed = 1
        /\ ~veh[id].is_stopped_at_light
        /\ ~veh[id].is_stopped_for_queue

\* the list in which the lookup of a vehicle with this direction searches
ExpectedLanes(net, direction) ==
    IF direction \in {<<1, 0>>, <<0, -1>>} THEN net.incoming_lanes
    ELSE net.outgoing_lanes

\* the vehicle's lane coordinate: its row for east/west travel, its column
\* for north/south travel
LaneCoordinate(direction, pos) == IF direction[1] # 0 THEN pos[2] ELSE pos[1]

\* C27: a gating-light lookup raises no error; when the vehicle's lane
\* coordinate is not in the expected lane list it uses lane index 0 and yields
\* the light of the first lane of the vehicle's approach, and otherwise the
\* light on the vehicle's own lane.
C27_LaneLookupFallback ==
    (built # None /\ built[1].lookup # None) =>
        /\ ~built[1].lookup[1].raised
        /\ built[1].lookup[1].light_pos # None
        /\ \E i \in DOMAIN built[1].net.traffic_lights :
              built[1].net.traffic_lights[i].pos = built[1].lookup[1].light_pos[1]
        /\ IF LaneCoordinate(built[1].lookup[1].direction, built[1].lookup[1].pos)
                \in Range(ExpectedLanes(built[1].net, built[1].lookup[1].direction))
           THEN LaneCoordinate(built[1].lookup[1].direction,
                               built[1].lookup[1].light_pos[1])
                = LaneCoordinate(built[1].lookup[1].direction, built[1].lookup[1].pos)
           ELSE /\ built[1].lookup[1].lane_idx = 0
                /\ LaneCoordinate(built[1].lookup[1].direction,
                                  built[1].lookup[1].light_pos[1])
                   = Head(ExpectedLanes(built[1].net, built[1].lookup[1].direction))

BlockedForever(S) ==
    /\ S # {}
    /\ S \subseteq ZoneVehicles(veh)
    /\ \A i \in S : \E j \in S : veh[j].pos = NextCell(veh[i])

\* C29: no state is reached in which vehicles in the conflict zone block one
\* another's next cells forever, so that every vehicle in the zone can leave
\* it.
C29_NoGridlock ==
    \A S \in SUBSET DOMAIN veh : ~BlockedForever(S)

PendingConsistent(ctl) ==
    /\ (ctl.pending_phase = None) <=> (ctl.phase_transition = None)
    /\ ctl.phase_transition = Some("clearing")
          => ctl.pending_phase = Some(~ctl.horizontal_phase)

\* a tick that begins in Clearing keeps the transition and the pending phase
\* through the strategy part, and up to its end unless it commits
ClearingKept ==
    (phase_transition = Some("clearing") /\ Tick)
        => /\ dec'.phase_transition = Some("clearing")
           /\ dec'.pending_phase = pending_phase
           /\ dec'.horizontal_phase = horizontal_phase
           /\ \/ /\ phase_transition' = Some("clearing")
                 /\ pending_phase' = pending_phase
                 /\ horizontal_phase' = horizontal_phase
              \/ /\ committed'
                 /\ phase_transition' = None
                 /\ horizontal_phase' = pending_phase[1]

\* C30: pending_phase is None exactly when phase_transition is None, after the
\* strategy part of a tick and at the end of a tick alike; while the
\* controller is Clearing pending_phase is the negation of horizontal_phase;
\* and a tick that begins in Clearing, whether or not its strategy evaluation
\* fires, changes neither the pending phase nor the transition before the commit.
C30_PendingPhase ==
    /\ [](PendingConsistent(Ctl) /\ PendingConsistent(dec))
    /\ [][ClearingKept]_vars

\* an auction has fired in a tick that began in Clearing; the transition and
\* the pending phase came through it, and the tick has committed that phase
C30_Witness ==
    /\ light_strategy = "auction"
    /\ evaluated
    /\ dec.phase_transition = Some("clearing")
    /\ dec.pending_phase = Some(~dec.horizontal_phase)
    /\ committed
    /\ horizontal_phase = dec.pending_phase[1]
    /\ phase_transition = None
GreenLights == {p \in traffic_light_positions : lights[p] = "Green"}

\* C31: the lights as the lights' steps of the latest tick left them, which are
\* the colours the vehicles of that tick read and the colours at the tick
\* boundary: no horizontal light and vertical light are Green together, and
\* the lights of one orientation group show one colour.
C31_NeverBothGreen ==
    \A p, q \in traffic_light_positions :
        /\ orientation[p] # orientation[q] => ~(p \in GreenLights /\ q \in GreenLights)
        /\ orientation[p] = orientation[q] => lights[p] = lights[q]

\* the tick of a fixed-cycle flip to the vertical phase: the vertical lights
\* are Green, the horizontal ones Red, and a vehicle has read Red on its
\* horizontal light
C31_Witness ==
    /\ light_strategy = "fixed_cycle"
    /\ current_cycle_time = 0
    /\ flips >= 1
    /\ ~horizontal_phase
    /\ GreenLights = VerticalLights
    /\ \E i \in DOMAIN veh :
         veh[i].pos \in HorizontalLights /\ veh[i].is_stopped_at_light
\* the counters and the vehicles present agree; veh holds the vehicles of the
\* grid and of the schedule, which spawn_vehicle (lines 300-301) and
\* _move_forward (lines 333-334) change together
Conserved ==
    /\ total_entered - total_exited = current_agents
    /\ current_agents = Cardinality(DOMAIN veh)
    /\ current_agents >= 0

\* C32: in every state between ticks total_entered - total_exited =
\* current_agents = the number of vehicles present, current_agents is not
\* negative, and no step makes total_entered or total_exited smaller.
C32_Conservation ==
    /\ []Conserved
    /\ [][total_entered' >= total_entered /\ total_exited' >= total_exited]_vars

\* vehicles have entered, one has left the grid and one is still on it
C32_Witness ==
    /\ total_entered >= 2
    /\ total_exited >= 1
    /\ current_agents >= 1
    /\ steps > 0
\* vehicle i is on the grid before and after the step, on the same cell
StaysPut(i) ==
    /\ i \in DOMAIN veh
    /\ i \in DOMAIN veh'
    /\ veh'[i].pos = veh[i].pos

\* C33: in every tick a vehicle that stays on its cell has its waiting_time
\* increased by 1, so that waiting_time is reset to 0 only in a tick in which
\* the vehicle moves.
C33_WaitingCountsStandstill ==
    [][Tick => \A i \in DOMAIN veh :
                 StaysPut(i) => veh'[i].waiting_time = veh[i].waiting_time + 1]_vars
====
